---- MODULE Spec2Model ----
(***************************************************************************)
(* A model of the two command line tools of git-repo-window-colors:        *)
(*   scripts/remove_console_logs.py   (the Log Stripper)                    *)
(*   scripts/recolor-vscode-icon.py   (the Icon Recolorer)                  *)
(* Texts are sequences of one-character strings; Python's 0-based indices  *)
(* are kept, so lines[i] of the source is lines[i + 1] here.                *)
(***************************************************************************)
EXTENDS Integers, Sequences, FiniteSets, TLC

VARIABLES
    \* ---- Log Stripper (remove_console_logs.py) ----
    file,            \* the content of the file at sys.argv[1]
    content,         \* argument of the running remove_console_logs call
    lines,           \* content.split("\n")
    i,               \* outer index
    j,               \* inner index
    paren_count,
    in_console_log,
    result,          \* the list of kept lines
    pc,              \* position of the Log Stripper process
    history,         \* completed runs of the tool: <<[in, out], ...>>
    \* ---- Icon Recolorer (recolor-vscode-icon.py), recolor_icon ----
    pixels,          \* img.load(): <<x, y>> -> <<R, G, B, A>>, changed in place
    loaded,          \* the pixels as they were when the loop began
    width,
    height,
    x,
    y,
    target_rgb,
    tolerance,
    preserve_brightness,
    modified_pixels,
    ipc,             \* position of recolor_icon
    output_ext,      \* extension of output_path, lower case
    desktop_mode,
    sizes,           \* the list of sizes built for an .ico
    images,          \* the list of renditions, each with its size
    saved,           \* what was handed to the encoder
    \* ---- Icon Recolorer, main ----
    input_exists,    \* Path(args.input).exists()
    color,           \* args.color: the positional COLOR arguments
    hex,             \* args.hex: <<TRUE, text>> when --hex is given
    rgb,             \* main's target_rgb
    recolor_calls,   \* calls of recolor_icon
    exit_code,
    mpc              \* position of main

stripVars == <<file, content, lines, i, j, paren_count, in_console_log, result, pc, history>>

pixelVars == <<pixels, loaded, width, height, x, y, target_rgb, tolerance,
               preserve_brightness, modified_pixels, ipc>>

icoVars == <<output_ext, desktop_mode, sizes, images, saved>>

mainVars == <<input_exists, color, hex, rgb, recolor_calls, exit_code, mpc>>

vars == <<stripVars, pixelVars, icoVars, mainVars>>

---------------------------------------------------------------------------
(* Bounds of the model.                                                    *)

\* Input texts are concatenations of at most MaxFrags fragments.
MaxFrags == 5
\* The tool is run at most MaxRuns times on the same file.
MaxRuns == 2
\* Images of the pixel loop are at most MaxWidth x MaxHeight.
MaxWidth == 2
MaxHeight == 2
\* Tolerances 0..MaxTolerance are tried on the classification.
MaxTolerance == 45
\* main is given at most MaxArgs positional COLOR arguments, and a --hex
\* value of at most MaxHexLen characters.
MaxArgs == 3
MaxHexLen == 7

---------------------------------------------------------------------------
(* Text helpers: what the Python string methods do.                        *)

NL == "\n"

\* str.lstrip() with no argument removes leading whitespace.
Whitespace == {" ", "\t", "\n", "\r"}

\* The literal "console.log(".
ConsoleLogPrefix == <<"c", "o", "n", "s", "o", "l", "e", ".", "l", "o", "g", "(">>

RECURSIVE Split(_)
\* content.split("\n"): always at least one (possibly empty) line.
Split(s) ==
    IF \A k \in 1..Len(s) : s[k] # NL
    THEN <<s>>
    ELSE LET p == CHOOSE k \in 1..Len(s) :
                      s[k] = NL /\ \A m \in 1..(k - 1) : s[m] # NL
         IN  <<SubSeq(s, 1, p - 1)>> \o Split(SubSeq(s, p + 1, Len(s)))

RECURSIVE JoinTrailingNewline(_)
\* A joiner that terminates every line, the last one too.
JoinTrailingNewline(ls) ==
    IF ls = <<>> THEN <<>>
    ELSE ls[1] \o <<NL>> \o JoinTrailingNewline(Tail(ls))

RECURSIVE Join(_)
\* "\n".join(result)
Join(ls) ==
    IF ls = <<>> THEN <<>>
    ELSE IF Len(ls) = 1 THEN ls[1]
    ELSE ls[1] \o <<NL>> \o Join(Tail(ls))

RECURSIVE LStrip(_)
\* line.lstrip()
LStrip(s) ==
    IF s # <<>> /\ s[1] \in Whitespace THEN LStrip(Tail(s)) ELSE s

\* s.startswith(p)
StartsWith(s, p) == Len(s) >= Len(p) /\ SubSeq(s, 1, Len(p)) = p

\* The test of line 22 taken on the raw line, without lstrip().
StartsLogNoStrip(line) == StartsWith(line, ConsoleLogPrefix)

\* line 21-22: stripped = line.lstrip(); stripped.startswith("console.log(")
StartsLog(line) == StartsWith(LStrip(line), ConsoleLogPrefix)

RECURSIVE ScanLine(_, _, _, _)
\* lines 31-41: the for loop over the characters of current_line, from
\* character k on.  found: the loop left by break (line 41).
ScanLine(line, k, count, inlog) ==
    IF k > Len(line) THEN [found |-> FALSE, count |-> count, inlog |-> inlog]
    ELSE IF line[k] = "(" THEN ScanLine(line, k + 1, count + 1, TRUE)
    ELSE IF line[k] = ")" THEN
        IF inlog /\ count - 1 = 0
        THEN [found |-> TRUE, count |-> count - 1, inlog |-> inlog]
        ELSE ScanLine(line, k + 1, count - 1, inlog)
    ELSE ScanLine(line, k + 1, count, inlog)

---------------------------------------------------------------------------
(* The inputs the model draws from.                                        *)

\* Pieces the input texts are built from: the prefix, parentheses, a blank,
\* a line break and one other character.
Frags == {ConsoleLogPrefix, <<"(">>, <<")">>, <<" ">>, <<NL>>, <<"x">>}

RECURSIVE TextsOf(_)
TextsOf(n) ==
    IF n = 0 THEN {<<>>}
    ELSE LET shorter == TextsOf(n - 1)
         IN  shorter \cup {t \o f : t \in shorter, f \in Frags}

\* 'console.log("a");\nkeep();\n'
ExampleSingle ==
    <<"c", "o", "n", "s", "o", "l", "e", ".", "l", "o", "g", "(", "\"",
      "a", "\"", ")", ";", NL, "k", "e", "e", "p", "(", ")", ";", NL>>

\* 'console.log(\n  "a",\n  "b"\n);\nkeep();\n'
ExampleMulti ==
    <<"c", "o", "n", "s", "o", "l", "e", ".", "l", "o", "g", "(", NL, " ",
      " ", "\"", "a", "\"", ",", NL, " ", " ", "\"", "b", "\"", NL, ")",
      ";", NL, "k", "e", "e", "p", "(", ")", ";", NL>>

\* 'myconsole.log(1);\n\nconsole.error(1);'
ExampleOther ==
    <<"m", "y", "c", "o", "n", "s", "o", "l", "e", ".", "l", "o", "g", "(",
      "1", ")", ";", NL, NL, "c", "o", "n", "s", "o", "l", "e", ".", "e",
      "r", "r", "o", "r", "(", "1", ")", ";">>

\* 'keep();\n'
ExampleKeep ==
    <<"k", "e", "e", "p", "(", ")", ";", NL>>

\* The texts a run may find in the file.
InputTexts == TextsOf(MaxFrags) \cup {ExampleSingle, ExampleMulti, ExampleOther}

---------------------------------------------------------------------------
(* Values of the parts of the state a specification does not exercise.     *)

NoImage == [p \in {} |-> <<0, 0, 0, 0>>]

PixelIdle ==
    /\ pixels = NoImage
    /\ loaded = NoImage
    /\ width = 0
    /\ height = 0
    /\ x = 0
    /\ y = 0
    /\ target_rgb = <<0, 0, 0>>
    /\ tolerance = 0
    /\ preserve_brightness = TRUE
    /\ modified_pixels = 0
    /\ ipc = "idle"

IcoIdle ==
    /\ output_ext = ""
    /\ desktop_mode = FALSE
    /\ sizes = <<>>
    /\ images = <<>>
    /\ saved = <<>>

MainIdle ==
    /\ input_exists = FALSE
    /\ color = <<>>
    /\ hex = <<FALSE, <<>>>>
    /\ rgb = <<>>
    /\ recolor_calls = 0
    /\ exit_code = -1
    /\ mpc = "idle"

---------------------------------------------------------------------------
(* The Log Stripper: main() and remove_console_logs(), one action per      *)
(* step of the two nested while loops.                                     *)

\* lines 59-64: main reads the file and calls remove_console_logs(content);
\* lines 13-15 set up the scan.
StripStart ==
    /\ pc \in {"idle", "done"}
    /\ Len(history) < MaxRuns
    /\ content' = file
    /\ lines' = Split(file)
    /\ result' = <<>>
    /\ i' = 0
    /\ pc' = "outer"
    /\ UNCHANGED <<file, j, paren_count, in_console_log, history>>
    /\ UNCHANGED <<pixelVars, icoVars, mainVars>>

\* lines 17-22, 47-49: the line does not start a console.log statement and
\* is copied through.
OuterCopy ==
    /\ pc = "outer"
    /\ i < Len(lines)
    /\ ~StartsLog(lines[i + 1])
    /\ result' = Append(result, lines[i + 1])
    /\ i' = i + 1
    /\ UNCHANGED <<file, content, lines, j, paren_count, in_console_log, pc, history>>
    /\ UNCHANGED <<pixelVars, icoVars, mainVars>>

\* lines 17-27: the line starts a console.log statement; the balance scan
\* is set up at the same line.
OuterMatch ==
    /\ pc = "outer"
    /\ i < Len(lines)
    /\ StartsLog(lines[i + 1])
    /\ paren_count' = 0
    /\ in_console_log' = FALSE
    /\ j' = i
    /\ pc' = "inner"
    /\ UNCHANGED <<file, content, lines, i, result, history>>
    /\ UNCHANGED <<pixelVars, icoVars, mainVars>>

\* lines 29-41, 46: the count returns to zero on line j; both loops' bodies
\* are left with i = j + 1.
InnerBreak ==
    /\ pc = "inner"
    /\ j < Len(lines)
    /\ LET r == ScanLine(lines[j + 1], 1, paren_count, in_console_log)
       IN  /\ r.found
           /\ paren_count' = r.count
           /\ in_console_log' = r.inlog
    /\ i' = j + 1
    /\ pc' = "outer"
    /\ UNCHANGED <<file, content, lines, j, result, history>>
    /\ UNCHANGED <<pixelVars, icoVars, mainVars>>

\* lines 29-36, 42-45: line j is scanned to its end without closing.
InnerContinue ==
    /\ pc = "inner"
    /\ j < Len(lines)
    /\ LET r == ScanLine(lines[j + 1], 1, paren_count, in_console_log)
       IN  /\ ~r.found
           /\ paren_count' = r.count
           /\ in_console_log' = r.inlog
    /\ j' = j + 1
    /\ UNCHANGED <<file, content, lines, i, result, pc, history>>
    /\ UNCHANGED <<pixelVars, icoVars, mainVars>>

\* line 29: j has reached len(lines); the inner while ends without break
\* and control is back at the test of the outer while (line 17), i as it
\* was.
InnerExhausted ==
    /\ pc = "inner"
    /\ j >= Len(lines)
    /\ pc' = "outer"
    /\ UNCHANGED <<file, content, lines, i, j, paren_count, in_console_log, result, history>>
    /\ UNCHANGED <<pixelVars, icoVars, mainVars>>

\* lines 17, 51, 64-69: the outer loop ends, the joined result is returned
\* and main writes it over the file.
StripReturn ==
    /\ pc = "outer"
    /\ i >= Len(lines)
    /\ file' = Join(result)
    /\ history' = Append(history, [in |-> content, out |-> Join(result)])
    /\ pc' = "done"
    /\ UNCHANGED <<content, lines, i, j, paren_count, in_console_log, result>>
    /\ UNCHANGED <<pixelVars, icoVars, mainVars>>

StripIdle ==
    /\ file = <<>>
    /\ content = <<>>
    /\ lines = <<>>
    /\ i = 0
    /\ j = 0
    /\ paren_count = 0
    /\ in_console_log = FALSE
    /\ result = <<>>
    /\ pc = "idle"
    /\ history = <<>>

\* The scan's locals before the first call.
StripFresh ==
    /\ content = <<>>
    /\ lines = <<>>
    /\ i = 0
    /\ j = 0
    /\ paren_count = 0
    /\ in_console_log = FALSE
    /\ result = <<>>
    /\ pc = "idle"
    /\ history = <<>>

InitStrip ==
    /\ file \in InputTexts
    /\ StripFresh
    /\ PixelIdle
    /\ IcoIdle
    /\ MainIdle

NextStrip ==
    \/ StripStart
    \/ OuterCopy
    \/ OuterMatch
    \/ InnerBreak
    \/ InnerContinue
    \/ InnerExhausted
    \/ StripReturn

\* The Log Stripper, run up to MaxRuns times on one file.
SpecStrip == InitStrip /\ [][NextStrip]_vars

\* The same with the process always taking its next step: the tool is one
\* synchronous thread.
FairStrip == SpecStrip /\ WF_vars(NextStrip)

---------------------------------------------------------------------------
(* What the specification says of the Log Stripper, stated over whole      *)
(* texts and independently of the scan's indices.                          *)

\* The characters of lines a..b (1-based), line breaks left out.
RECURSIVE Flat(_, _, _)
Flat(ls, a, b) == IF a > b THEN <<>> ELSE ls[a] \o Flat(ls, a + 1, b)

\* "(" counted +1 and ")" counted -1 over the first p characters of s.
Balance(s, p) ==
    Cardinality({k \in 1..p : s[k] = "("}) - Cardinality({k \in 1..p : s[k] = ")"})

\* The running count started at line a is back at zero somewhere in a..b.
ClosesBy(ls, a, b) ==
    LET s == Flat(ls, a, b)
    IN  \E p \in 1..Len(s) : s[p] = ")" /\ Balance(s, p) = 0

\* The first line on which the count started at line a returns to zero;
\* 0 when it never does before the end of the text.
CloseLine(ls, a) ==
    IF \E b \in a..Len(ls) : ClosesBy(ls, a, b)
    THEN CHOOSE b \in a..Len(ls) :
             ClosesBy(ls, a, b) /\ \A c \in a..(b - 1) : ~ClosesBy(ls, a, c)
    ELSE 0

\* The line, leading whitespace aside, starts with console.log( .
IsLogLine(line) ==
    \E k \in 0..Len(line) :
        /\ \A m \in 1..k : line[m] \in Whitespace
        /\ k + Len(ConsoleLogPrefix) <= Len(line)
        /\ \A m \in 1..Len(ConsoleLogPrefix) : line[k + m] = ConsoleLogPrefix[m]

\* Some scanned console.log( line from line a on is never balanced.
RECURSIVE HasOpen(_, _)
HasOpen(ls, a) ==
    IF a > Len(ls) THEN FALSE
    ELSE IF IsLogLine(ls[a])
         THEN CloseLine(ls, a) = 0 \/ HasOpen(ls, CloseLine(ls, a) + 1)
         ELSE HasOpen(ls, a + 1)

\* The lines from line a on that the specification keeps: every span from a
\* console.log( line through its closing line is dropped, an unterminated
\* one to the end of the text.
RECURSIVE Kept(_, _)
Kept(ls, a) ==
    IF a > Len(ls) THEN <<>>
    ELSE IF IsLogLine(ls[a])
         THEN IF CloseLine(ls, a) = 0 THEN <<>> ELSE Kept(ls, CloseLine(ls, a) + 1)
         ELSE <<ls[a]>> \o Kept(ls, a + 1)

\* C1: a text with an unterminated console.log( statement makes
\* remove_console_logs return, and what it returns is the lines copied
\* through before that statement.
C1_UnterminatedReturnsPrefix ==
    (pc = "outer" /\ HasOpen(lines, 1))
        ~> (pc = "done" /\ result = Kept(lines, 1) /\ file = Join(result))

\* C2: on a text whose console.log( statements are all balanced the output
\* is the input lines, in order and unchanged, minus every span from a
\* console.log( line through the line that brings the count back to zero;
\* the two sample texts of the specification both give keep();\n and lines
\* with another prefix are kept verbatim.
C2_BalancedSpansRemoved ==
    (pc = "done" /\ ~HasOpen(lines, 1)) =>
        /\ result = Kept(lines, 1)
        /\ file = Join(Kept(Split(content), 1))
        /\ content = ExampleSingle => file = ExampleKeep
        /\ content = ExampleMulti => file = ExampleKeep
        /\ content = ExampleOther => file = ExampleOther

\* A run has finished on a balanced text in which a statement spanning
\* several lines was removed and other lines were kept.
C2_Witness ==
    /\ pc = "done"
    /\ ~HasOpen(lines, 1)
    /\ result # <<>>
    /\ \E a \in 1..Len(lines) :
           /\ IsLogLine(lines[a])
           /\ CloseLine(lines, a) > a
           /\ Kept(lines, 1) = Kept(lines, a)

\* C3: running the tool a second time on its own output gives that output
\* again.
C3_Idempotent ==
    \A k \in 2..Len(history) :
        /\ history[k].in = history[k - 1].out
        /\ history[k].out = history[k - 1].out

\* Two runs are complete and the first one removed something.
C3_Witness ==
    /\ Len(history) >= 2
    /\ history[1].in # history[1].out

\* C10: every iteration of the outer loop, whichever way it ends, comes
\* back to the loop test with a strictly larger i (so the scan ends).
C10_OuterIndexIncreases ==
    [][(pc \in {"outer", "inner"} /\ pc' = "outer") => i' > i]_vars

---------------------------------------------------------------------------
(* The Icon Recolorer: colour arithmetic.  An HSV triple is held exactly:  *)
(*   [hn, hd]  hue, h * 6 = hn / hd  (0 <= hn < 6 * hd)                     *)
(*   [sn, sd]  saturation, s = sn / sd                                      *)
(*   vn        value, v = vn / 255                                          *)

Abs(n) == IF n < 0 THEN -n ELSE n

Max3(a, b, c) == IF a >= b /\ a >= c THEN a ELSE IF b >= c THEN b ELSE c

Min3(a, b, c) == IF a <= b /\ a <= c THEN a ELSE IF b <= c THEN b ELSE c

\* lines 53-57
vscode_blues == <<<<0, 122, 204>>, <<37, 99, 235>>, <<59, 130, 246>>>>

\* The reference colour test with the bound included.
NearReferenceInclusive(pixel, tol) ==
    \E k \in 1..Len(vscode_blues) :
        /\ Abs(pixel[1] - vscode_blues[k][1]) <= tol
        /\ Abs(pixel[2] - vscode_blues[k][2]) <= tol
        /\ Abs(pixel[3] - vscode_blues[k][3]) <= tol

\* lines 59-65: the loop over vscode_blues
NearReference(pixel, tol) ==
    \E k \in 1..Len(vscode_blues) :
        /\ Abs(pixel[1] - vscode_blues[k][1]) < tol
        /\ Abs(pixel[2] - vscode_blues[k][2]) < tol
        /\ Abs(pixel[3] - vscode_blues[k][3]) < tol

\* lines 40-67: is_blue_pixel(pixel, tolerance)
is_blue_pixel(pixel, tol) ==
    LET r == pixel[1]
        g == pixel[2]
        b == pixel[3]
    IN  IF b > r /\ b > g /\ b > 100 THEN TRUE ELSE NearReference(pixel, tol)

\* lines 29-31: rgb_to_hsv(r, g, b) = colorsys.rgb_to_hsv(r/255, g/255, b/255)
rgb_to_hsv(r, g, b) ==
    LET maxc == Max3(r, g, b)
        minc == Min3(r, g, b)
        rangec == maxc - minc
        \* h before (h / 6.0) % 1.0, times rangec
        h6 == IF r = maxc THEN g - b
              ELSE IF g = maxc THEN 2 * rangec + (b - r)
              ELSE 4 * rangec + (r - g)
    IN  IF minc = maxc
        THEN [hn |-> 0, hd |-> 1, sn |-> 0, sd |-> 1, vn |-> maxc]
        ELSE [hn |-> h6 % (6 * rangec), hd |-> rangec,
              sn |-> rangec, sd |-> maxc, vn |-> maxc]

\* int(c * 255) for a channel c whose exact value times 255 is num / den.
\* Python truncates a double: when the exact product is a whole number n the
\* computed double is n or just below it, and the result is n or n - 1.
TruncChannel(num, den) ==
    IF num % den = 0 /\ num > 0
    THEN {num \div den, (num \div den) - 1}
    ELSE {num \div den}

\* lines 34-37: hsv_to_rgb(h, s, v) = colorsys.hsv_to_rgb, each channel
\* times 255 and truncated.  The set of triples the doubles can give.
hsv_to_rgb(hn, hd, sn, sd, vn) ==
    IF sn = 0 THEN {<<vn, vn, vn>>}
    ELSE
        LET k == hn \div hd              \* i = int(h * 6.0)
            fn == hn - k * hd            \* f = h * 6.0 - i  (= fn / hd)
            V == {vn}
            P == TruncChannel(vn * (sd - sn), sd)
            Q == TruncChannel(vn * (sd * hd - sn * fn), sd * hd)
            T == TruncChannel(vn * (sd * hd - sn * (hd - fn)), sd * hd)
        IN  CASE k % 6 = 0 -> {<<v, t, p>> : v \in V, t \in T, p \in P}
              [] k % 6 = 1 -> {<<q, v, p>> : q \in Q, v \in V, p \in P}
              [] k % 6 = 2 -> {<<p, v, t>> : p \in P, v \in V, t \in T}
              [] k % 6 = 3 -> {<<p, q, v>> : p \in P, q \in Q, v \in V}
              [] k % 6 = 4 -> {<<t, p, v>> : t \in T, p \in P, v \in V}
              [] k % 6 = 5 -> {<<v, p, q>> : v \in V, p \in P, q \in Q}

\* The recolouring with the pixel's own hue kept.
NewColorsOwnHue(pixel, target) ==
    LET o == rgb_to_hsv(pixel[1], pixel[2], pixel[3])
    IN  hsv_to_rgb(o.hn, o.hd, o.sn, o.sd, o.vn)

\* lines 121-127: the colours hsv_to_rgb(target_h, orig_s, orig_v) can give
NewColors(pixel, target) ==
    LET t == rgb_to_hsv(target[1], target[2], target[3])
        o == rgb_to_hsv(pixel[1], pixel[2], pixel[3])
    IN  hsv_to_rgb(t.hn, t.hd, o.sn, o.sd, o.vn)

\* A test that lets every pixel through.
NeverSkipped(pixel) == FALSE

\* lines 115-117: len(pixel) == 4 and pixel[3] == 0
Skipped(pixel) == Len(pixel) = 4 /\ pixel[4] = 0

---------------------------------------------------------------------------
(* recolor_icon, lines 111-140: the loop over the pixels, one action per   *)
(* pixel visited.                                                          *)

\* What no step of the loop changes.
LoopFrame ==
    /\ UNCHANGED <<loaded, width, height, target_rgb, tolerance, preserve_brightness>>
    /\ UNCHANGED <<stripVars, icoVars, mainVars>>

\* The loop variables after the body at (x, y).
Advance ==
    IF y + 1 < height
    THEN /\ y' = y + 1
         /\ x' = x
         /\ ipc' = "loop"
    ELSE /\ y' = 0
         /\ x' = x + 1
         /\ ipc' = IF x + 1 < width THEN "loop" ELSE "looped"

\* lines 113-117: a transparent pixel is skipped.
PixelSkip ==
    /\ ipc = "loop"
    /\ Skipped(pixels[<<x, y>>])
    /\ Advance
    /\ UNCHANGED <<pixels, modified_pixels>>
    /\ LoopFrame

\* line 120: not a blue pixel, nothing is written.
PixelKeep ==
    /\ ipc = "loop"
    /\ ~Skipped(pixels[<<x, y>>])
    /\ ~is_blue_pixel(pixels[<<x, y>>], tolerance)
    /\ Advance
    /\ UNCHANGED <<pixels, modified_pixels>>
    /\ LoopFrame

\* lines 120-127, 133-138: a blue pixel gets the target hue with its own
\* saturation and value.
PixelShiftHue ==
    /\ ipc = "loop"
    /\ ~Skipped(pixels[<<x, y>>])
    /\ is_blue_pixel(pixels[<<x, y>>], tolerance)
    /\ preserve_brightness
    /\ \E new \in NewColors(pixels[<<x, y>>], target_rgb) :
           pixels' = [pixels EXCEPT ![<<x, y>>] =
                          <<new[1], new[2], new[3], pixels[<<x, y>>][4]>>]
    /\ modified_pixels' = modified_pixels + 1
    /\ Advance
    /\ LoopFrame

\* lines 120, 128-138: a blue pixel gets the flat target colour.
PixelFlat ==
    /\ ipc = "loop"
    /\ ~Skipped(pixels[<<x, y>>])
    /\ is_blue_pixel(pixels[<<x, y>>], tolerance)
    /\ ~preserve_brightness
    /\ pixels' = [pixels EXCEPT ![<<x, y>>] =
                      <<target_rgb[1], target_rgb[2], target_rgb[3],
                        pixels[<<x, y>>][4]>>]
    /\ modified_pixels' = modified_pixels + 1
    /\ Advance
    /\ LoopFrame

NextPixel ==
    \/ PixelSkip
    \/ PixelKeep
    \/ PixelShiftHue
    \/ PixelFlat

\* lines 91-108: the image is open and converted to RGBA, the loop is about
\* to start at (0, 0).
LoopEntry(image, w, h, target, tol, preserve) ==
    /\ pixels = image
    /\ loaded = image
    /\ width = w
    /\ height = h
    /\ x = 0
    /\ y = 0
    /\ target_rgb = target
    /\ tolerance = tol
    /\ preserve_brightness = preserve
    /\ modified_pixels = 0
    /\ ipc = "loop"

---------------------------------------------------------------------------
(* Specifications of the pixel loop.                                       *)

\* All images of one size over a set of pixels.
ImagesOf(w, h, pool) == [(0..(w - 1)) \X (0..(h - 1)) -> pool]

IsByte(n) == n >= 0 /\ n <= 255

\* A transparent pixel with blue RGB, an opaque pixel that is not blue and a
\* translucent pixel that only a tolerance above 48 makes blue.
LoopPool == {<<10, 20, 200, 0>>, <<200, 50, 50, 255>>, <<0, 170, 160, 200>>}

\* The pixel loop over small images.
InitPixel ==
    /\ \E w \in 1..MaxWidth, h \in 1..MaxHeight :
       \E image \in ImagesOf(w, h, LoopPool) :
       \E target \in {<<255, 128, 0>>, <<10, 20, 200>>} :
       \E tol \in {30, 60}, preserve \in BOOLEAN :
           LoopEntry(image, w, h, target, tol, preserve)
    /\ StripIdle
    /\ IcoIdle
    /\ MainIdle

SpecPixel == InitPixel /\ [][NextPixel]_vars

\* Channel values of the pixels and of the targets of the hue check.
HueChannels == {0, 30, 101, 122, 170, 204, 238, 255}

HueTargetChannels == {0, 128, 142, 180, 255}

\* One pixel recoloured, over a grid of pixels and target colours.
InitHue ==
    /\ \E r \in HueChannels, g \in HueChannels, b \in HueChannels :
       \E a \in {0, 200} :
       \E tr \in HueTargetChannels, tg \in HueTargetChannels,
          tb \in HueTargetChannels :
       \E tol \in {30, 120}, preserve \in BOOLEAN :
           LoopEntry([p \in {<<0, 0>>} |-> <<r, g, b, a>>], 1, 1,
                     <<tr, tg, tb>>, tol, preserve)
    /\ StripIdle
    /\ IcoIdle
    /\ MainIdle

SpecHue == InitHue /\ [][NextPixel]_vars

\* Offsets from a reference blue at, just inside and just outside a
\* tolerance.
OffsetsAt(tol) == {-(tol + 1), -tol, -(tol - 1), 0, tol - 1, tol, tol + 1}

\* Pixels around the reference blues for a tolerance, and a coarse grid
\* around the threshold of the dominance rule.
PixelsAround(tol) ==
    {<<vscode_blues[k][1] + dr, vscode_blues[k][2] + dg, vscode_blues[k][3] + db>> :
        k \in 1..Len(vscode_blues),
        dr \in OffsetsAt(tol), dg \in OffsetsAt(tol), db \in OffsetsAt(tol)}
    \cup ({0, 100, 101, 102, 255} \X {0, 100, 101, 102, 255} \X {0, 100, 101, 102, 255})

\* One pixel classified, for every tolerance up to MaxTolerance.
InitBlue ==
    /\ \E tol \in 0..MaxTolerance :
       \E c \in {q \in PixelsAround(tol) : IsByte(q[1]) /\ IsByte(q[2]) /\ IsByte(q[3])} :
       \E a \in {0, 255}, preserve \in BOOLEAN :
           LoopEntry([p \in {<<0, 0>>} |-> <<c[1], c[2], c[3], a>>], 1, 1,
                     <<255, 128, 0>>, tol, preserve)
    /\ StripIdle
    /\ IcoIdle
    /\ MainIdle

SpecBlue == InitBlue /\ [][NextPixel]_vars

---------------------------------------------------------------------------
(* What the specification says of the pixel loop.                          *)

\* C7: the loop never changes a pixel's alpha, and a pixel whose alpha is 0
\* keeps all four channels, blue or not.
C7_AlphaFrame ==
    \A p \in DOMAIN pixels :
        /\ pixels[p][4] = loaded[p][4]
        /\ loaded[p][4] = 0 => pixels[p] = loaded[p]

\* The loop is over; it passed a transparent pixel with blue RGB and it
\* recoloured another pixel.
C7_Witness ==
    /\ ipc = "looped"
    /\ \E p \in DOMAIN loaded :
           loaded[p][4] = 0 /\ is_blue_pixel(loaded[p], tolerance)
    /\ \E p \in DOMAIN loaded : pixels[p] # loaded[p]

\* Rule (a): the blue channel exceeds red and green and is above 100.
DominantBlue(p) == p[3] > p[1] /\ p[3] > p[2] /\ p[3] > 100

\* The largest per-channel distance between two colours.
Chebyshev(p, c) == Max3(Abs(p[1] - c[1]), Abs(p[2] - c[2]), Abs(p[3] - c[3]))

ReferenceBlues == {<<0, 122, 204>>, <<37, 99, 235>>, <<59, 130, 246>>}

\* The one pixel of a 1 x 1 image has been classified: it was counted as
\* modified exactly when is_blue_pixel returned true.
Classified ==
    /\ ipc = "looped"
    /\ width = 1
    /\ height = 1
    /\ loaded[<<0, 0>>][4] # 0

\* C8 as written: a pixel is blue exactly when rule (a) holds or it lies
\* within the tolerance of a reference blue, the tolerance itself included.
C8_BlueIffWithinInclusive ==
    Classified =>
        (modified_pixels = 1 <=>
            \/ DominantBlue(loaded[<<0, 0>>])
            \/ \E c \in ReferenceBlues : Chebyshev(loaded[<<0, 0>>], c) <= tolerance)

\* C8 amended: a pixel is blue exactly when rule (a) holds or it lies
\* strictly closer than the tolerance to a reference blue on every channel.
C8_BlueIffWithinStrict ==
    Classified =>
        /\ modified_pixels = 1 <=> is_blue_pixel(loaded[<<0, 0>>], tolerance)
        /\ modified_pixels = 1 <=>
               \/ DominantBlue(loaded[<<0, 0>>])
               \/ \E c \in ReferenceBlues : Chebyshev(loaded[<<0, 0>>], c) < tolerance

\* A pixel was classified blue by its distance to a reference blue alone.
C8_Witness ==
    /\ Classified
    /\ modified_pixels = 1
    /\ ~DominantBlue(loaded[<<0, 0>>])

\* The hue of a colour, in sixths of a turn, as a fraction num / den; a
\* gray has hue 0.
HueOf(c) ==
    LET hi == Max3(c[1], c[2], c[3])
        lo == Min3(c[1], c[2], c[3])
        d == hi - lo
        raw == IF c[1] = hi THEN c[2] - c[3]
               ELSE IF c[2] = hi THEN 2 * d + c[3] - c[1]
               ELSE 4 * d + c[1] - c[2]
    IN  IF d = 0 THEN [num |-> 0, den |-> 1]
        ELSE [num |-> (raw + 6 * d) % (6 * d), den |-> d]

\* |a - b| on the hue circle is at most 1 / r sixths of a turn.
HueWithin(a, b, r) ==
    LET diff == Abs(a.num * b.den - b.num * a.den)
        whole == 6 * a.den * b.den
    IN  r * diff <= a.den * b.den \/ r * (whole - diff) <= a.den * b.den

\* A blue, non-transparent pixel of a 1 x 1 image has been recoloured with
\* preserve-brightness set.
HueShifted ==
    /\ Classified
    /\ preserve_brightness
    /\ modified_pixels = 1

\* Value and saturation of the written pixel against the loaded one: the
\* largest channel is the same, the smallest the same or one less.
ValueAndSaturationKept(old, new) ==
    /\ Max3(new[1], new[2], new[3]) = Max3(old[1], old[2], old[3])
    /\ Min3(new[1], new[2], new[3]) \in
           {Min3(old[1], old[2], old[3]), Min3(old[1], old[2], old[3]) - 1}

\* The recolouring of the pixel has one possible result: no channel's exact
\* value is a whole number that the doubles could truncate either way.
RoundingFree(pixel, target) == Cardinality(NewColors(pixel, target)) = 1

\* C9 as written: the written pixel has the input's saturation and value
\* (within rounding of the channels) and its hue equals the target's hue.
\* Stated where the result does not hang on the doubles' rounding, so that
\* a violation is a run of the program itself.
C9_HueEqualsTarget ==
    (HueShifted /\ RoundingFree(loaded[<<0, 0>>], target_rgb)) =>
        /\ ValueAndSaturationKept(loaded[<<0, 0>>], pixels[<<0, 0>>])
        /\ HueOf(pixels[<<0, 0>>]).num * HueOf(target_rgb).den
               = HueOf(target_rgb).num * HueOf(pixels[<<0, 0>>]).den

\* C9 amended: the written pixel has the input's value, the input's
\* saturation within one channel step, and, when the input is not gray, a
\* hue within 1 / (max - min) sixths of a turn of the target's hue (max and
\* min the input's channels); a gray input is written back as it was.
C9_HueWithinRounding ==
    HueShifted =>
        LET old == loaded[<<0, 0>>]
            new == pixels[<<0, 0>>]
            spread == Max3(old[1], old[2], old[3]) - Min3(old[1], old[2], old[3])
        IN  /\ ValueAndSaturationKept(old, new)
            /\ spread > 0 => HueWithin(HueOf(new), HueOf(target_rgb), spread)
            /\ spread = 0 => new = old

\* A blue pixel was moved to a target hue far from its own.
C9_Witness ==
    /\ HueShifted
    /\ loaded[<<0, 0>>] = <<0, 122, 204, 200>>
    /\ target_rgb = <<255, 128, 0>>
    /\ pixels[<<0, 0>>] = <<204, 102, 0, 200>>

---------------------------------------------------------------------------
(* recolor_icon, lines 142-187: the save.                                  *)

Min2(a, b) == IF a <= b THEN a ELSE b

\* line 164
StandardSizes == <<<<16, 16>>, <<32, 32>>, <<48, 48>>, <<64, 64>>>>

\* The desktop list with 512 and the original size added together, only
\* for a source of at least 512 both ways.
DesktopSizesLargeOnly(w, h) ==
    LET base == StandardSizes \o <<<<128, 128>>, <<256, 256>>>>
        max_size == Min2(Min2(w, h), 1024)
    IN  IF w >= 512 /\ h >= 512 /\ max_size > 512
        THEN base \o <<<<512, 512>>, <<max_size, max_size>>>>
        ELSE IF w >= 512 /\ h >= 512 THEN base \o <<<<512, 512>>>>
        ELSE base

\* lines 150-161: the list built in desktop mode for a w x h source
DesktopSizes(w, h) ==
    LET base == StandardSizes \o <<<<128, 128>>, <<256, 256>>>>
        with512 == IF w >= 512 /\ h >= 512 THEN base \o <<<<512, 512>>>> ELSE base
        max_size == Min2(Min2(w, h), 1024)
    IN  IF w > 256 \/ h > 256
        THEN IF max_size > 256
             THEN Append(with512, <<max_size, max_size>>)
             ELSE with512
        ELSE base

IcoFrame ==
    /\ UNCHANGED <<pixels, loaded, width, height, x, y, target_rgb, tolerance,
                   preserve_brightness, modified_pixels>>
    /\ UNCHANGED <<output_ext, desktop_mode>>
    /\ UNCHANGED <<stripVars, mainVars>>

\* lines 143-146, 182-187: another extension, the image is saved as it is.
SavePlain ==
    /\ ipc = "looped"
    /\ output_ext # "ico"
    /\ saved' = <<<<width, height>>>>
    /\ ipc' = "returned"
    /\ UNCHANGED <<sizes, images>>
    /\ IcoFrame

\* lines 146-148, 162-167: .ico without desktop mode
SizesStandard ==
    /\ ipc = "looped"
    /\ output_ext = "ico"
    /\ ~desktop_mode
    /\ sizes' = StandardSizes
    /\ images' = <<>>
    /\ ipc' = "resize"
    /\ UNCHANGED saved
    /\ IcoFrame

\* lines 146-161, 166-167: .ico in desktop mode
SizesDesktop ==
    /\ ipc = "looped"
    /\ output_ext = "ico"
    /\ desktop_mode
    /\ sizes' = DesktopSizes(width, height)
    /\ images' = <<>>
    /\ ipc' = "resize"
    /\ UNCHANGED saved
    /\ IcoFrame

\* lines 169-172: the next size differs from img.size, the image is resized.
ResizeOne ==
    /\ ipc = "resize"
    /\ Len(images) < Len(sizes)
    /\ <<width, height>> # sizes[Len(images) + 1]
    /\ images' = Append(images, [size |-> sizes[Len(images) + 1], resized |-> TRUE])
    /\ UNCHANGED <<sizes, saved, ipc>>
    /\ IcoFrame

\* lines 169-170, 173-174: the next size is img.size, the image is copied.
CopyOne ==
    /\ ipc = "resize"
    /\ Len(images) < Len(sizes)
    /\ <<width, height>> = sizes[Len(images) + 1]
    /\ images' = Append(images, [size |-> <<width, height>>, resized |-> FALSE])
    /\ UNCHANGED <<sizes, saved, ipc>>
    /\ IcoFrame

\* lines 177-187: images[0].save(..., sizes = the renditions' sizes)
SaveIco ==
    /\ ipc = "resize"
    /\ Len(images) = Len(sizes)
    /\ saved' = [k \in 1..Len(images) |-> images[k].size]
    /\ ipc' = "returned"
    /\ UNCHANGED <<sizes, images>>
    /\ IcoFrame

NextIco ==
    \/ SavePlain
    \/ SizesStandard
    \/ SizesDesktop
    \/ ResizeOne
    \/ CopyOne
    \/ SaveIco

\* Widths and heights of the source images: around 256, 512 and 1024.
SourceDims == {16, 64, 256, 257, 300, 511, 512, 513, 1024, 1025, 2000}

\* The pixel loop is over (line 140) for a source of any of these sizes;
\* the pixels themselves play no part in the save.
InitIco ==
    /\ width \in SourceDims
    /\ height \in SourceDims
    /\ output_ext \in {"ico", "png"}
    /\ desktop_mode \in BOOLEAN
    /\ sizes = <<>>
    /\ images = <<>>
    /\ saved = <<>>
    /\ pixels = NoImage
    /\ loaded = NoImage
    /\ x = width
    /\ y = 0
    /\ target_rgb = <<255, 128, 0>>
    /\ tolerance = 30
    /\ preserve_brightness = TRUE
    /\ modified_pixels = 0
    /\ ipc = "looped"
    /\ StripIdle
    /\ MainIdle

SpecIco == InitIco /\ [][NextIco]_vars

\* The sizes of a list, as a set.
SizeSet(list) == {list[k] : k \in 1..Len(list)}

Square(n) == <<n, n>>

\* An .ico has been written.
IcoSaved == ipc = "returned" /\ output_ext = "ico"

\* C4: the list of sizes handed to the ICO encoder holds no size twice.
C4_NoDuplicateSizes ==
    IcoSaved =>
        \A a \in 1..Len(saved), b \in 1..Len(saved) : a # b => saved[a] # saved[b]

\* C5 as written: the list holds 16, 32, 48, 64 always, 128 and 256 exactly
\* in desktop mode, 512 and the original size capped at 1024 exactly in
\* desktop mode for a source of at least 512 both ways, and nothing else.
C5_SizesAsSpecified ==
    IcoSaved =>
        SizeSet(saved) =
            {Square(16), Square(32), Square(48), Square(64)}
            \cup (IF desktop_mode THEN {Square(128), Square(256)} ELSE {})
            \cup (IF desktop_mode /\ width >= 512 /\ height >= 512
                  THEN {Square(512), Square(Min2(Min2(width, height), 1024))}
                  ELSE {})

\* C5 amended: 16, 32, 48, 64 always; 128 and 256 exactly in desktop mode;
\* 512 exactly in desktop mode for a source of at least 512 both ways; the
\* smaller side of the source, capped at 1024, exactly in desktop mode for
\* a source of more than 256 both ways; and nothing else.
C5_SizesAsBuilt ==
    IcoSaved =>
        /\ SizeSet(saved) =
               {Square(16), Square(32), Square(48), Square(64)}
               \cup (IF desktop_mode THEN {Square(128), Square(256)} ELSE {})
               \cup (IF desktop_mode /\ width >= 512 /\ height >= 512
                     THEN {Square(512)} ELSE {})
               \cup (IF desktop_mode /\ width > 256 /\ height > 256
                     THEN {Square(Min2(Min2(width, height), 1024))} ELSE {})
        /\ saved = sizes

\* A desktop .ico was written from a source between 256 and 512: the list
\* holds the source's size and no 512.
C5_Witness ==
    /\ IcoSaved
    /\ desktop_mode
    /\ width = 300
    /\ height = 300
    /\ Square(300) \in SizeSet(saved)
    /\ Square(512) \notin SizeSet(saved)

---------------------------------------------------------------------------
(* main, lines 258-323: the validation of the arguments.  Python's int()   *)
(* is modelled by what it accepts: surrounding whitespace, a sign, for     *)
(* base 16 a 0x prefix, and single underscores between digits.             *)

DigitChars ==
    <<"0", "1", "2", "3", "4", "5", "6", "7", "8", "9",
      "a", "b", "c", "d", "e", "f">>

UpperHex == <<"A", "B", "C", "D", "E", "F">>

\* The value of a digit character, -1 for any other character.
DigitValue(c) ==
    IF \E k \in 1..Len(DigitChars) : DigitChars[k] = c
    THEN (CHOOSE k \in 1..Len(DigitChars) : DigitChars[k] = c) - 1
    ELSE IF \E k \in 1..Len(UpperHex) : UpperHex[k] = c
    THEN (CHOOSE k \in 1..Len(UpperHex) : UpperHex[k] = c) + 9
    ELSE -1

IsDigit(c, base) == DigitValue(c) >= 0 /\ DigitValue(c) < base

RECURSIVE RStrip(_)
RStrip(s) ==
    IF s # <<>> /\ s[Len(s)] \in Whitespace
    THEN RStrip(SubSeq(s, 1, Len(s) - 1))
    ELSE s

\* Digits with single underscores between them (an underscore may also
\* follow a base prefix).
DigitsOk(s, base, afterPrefix) ==
    /\ s # <<>>
    /\ \A k \in 1..Len(s) : IsDigit(s[k], base) \/ s[k] = "_"
    /\ s[Len(s)] # "_"
    /\ s[1] = "_" => afterPrefix
    /\ \A k \in 1..(Len(s) - 1) : ~(s[k] = "_" /\ s[k + 1] = "_")

RECURSIVE DigitsValue(_, _, _)
DigitsValue(s, base, acc) ==
    IF s = <<>> THEN acc
    ELSE IF s[1] = "_" THEN DigitsValue(Tail(s), base, acc)
    ELSE DigitsValue(Tail(s), base, acc * base + DigitValue(s[1]))

\* int(s, base): [ok |-> FALSE] stands for ValueError.
ParseInt(s, base) ==
    LET t == RStrip(LStrip(s))
        signed == t # <<>> /\ t[1] \in {"+", "-"}
        u == IF signed THEN Tail(t) ELSE t
        prefixed == /\ base = 16
                    /\ Len(u) >= 2
                    /\ u[1] = "0"
                    /\ u[2] \in {"x", "X"}
        d == IF prefixed THEN SubSeq(u, 3, Len(u)) ELSE u
        v == DigitsValue(d, base, 0)
    IN  IF DigitsOk(d, base, prefixed)
        THEN [ok |-> TRUE, value |-> IF signed /\ t[1] = "-" THEN -v ELSE v]
        ELSE [ok |-> FALSE, value |-> 0]

RECURSIVE LStripHash(_)
\* hex_color.lstrip("#")
LStripHash(s) == IF s # <<>> /\ s[1] = "#" THEN LStripHash(Tail(s)) ELSE s

\* hex_color[a:a + 2], a 0-based: the slice is cut at the end of the text.
Slice2(s, a) == SubSeq(s, a + 1, Min2(a + 2, Len(s)))

\* lines 23-26: hex_to_rgb(hex_color); [ok |-> FALSE] stands for ValueError.
hex_to_rgb(hex_color) ==
    LET h == LStripHash(hex_color)
        r == ParseInt(Slice2(h, 0), 16)
        g == ParseInt(Slice2(h, 2), 16)
        b == ParseInt(Slice2(h, 4), 16)
    IN  IF r.ok /\ g.ok /\ b.ok
        THEN [ok |-> TRUE, value |-> <<r.value, g.value, b.value>>]
        ELSE [ok |-> FALSE, value |-> <<>>]

\* `args.hex` as a condition: None and "" are false.
HexGiven == hex[1] /\ hex[2] # <<>>

\* line 278: a single COLOR argument starting with "#"
PositionalHex == Len(color) = 1 /\ StartsWith(color[1], <<"#">>)

\* line 287: [int(x) for x in args.color]
rgb_values == [k \in 1..Len(color) |-> ParseInt(color[k], 10)]

MainFrame ==
    /\ UNCHANGED <<input_exists, color, hex>>
    /\ UNCHANGED <<stripVars, pixelVars, icoVars>>

\* The return of 1 of a failed validation.
Fail ==
    /\ exit_code' = 1
    /\ mpc' = "exit"
    /\ UNCHANGED <<rgb, recolor_calls>>
    /\ MainFrame

\* The target colour is settled; recolor_icon is called next.
Accept(value) ==
    /\ rgb' = value
    /\ mpc' = "call"
    /\ UNCHANGED <<exit_code, recolor_calls>>
    /\ MainFrame

\* lines 259-262
MainInputMissing ==
    /\ mpc = "start"
    /\ ~input_exists
    /\ Fail

\* lines 265-267
MainBothColors ==
    /\ mpc = "start"
    /\ input_exists
    /\ color # <<>> /\ HexGiven
    /\ Fail

\* lines 269-273
MainNoColor ==
    /\ mpc = "start"
    /\ input_exists
    /\ color = <<>> /\ ~HexGiven
    /\ Fail

\* lines 276-283: a positional hex colour that hex_to_rgb refuses
MainPositionalHexBad ==
    /\ mpc = "start"
    /\ input_exists
    /\ color # <<>> /\ ~HexGiven
    /\ PositionalHex
    /\ ~hex_to_rgb(color[1]).ok
    /\ Fail

\* lines 276-280: a positional hex colour that hex_to_rgb converts
MainPositionalHexOk ==
    /\ mpc = "start"
    /\ input_exists
    /\ color # <<>> /\ ~HexGiven
    /\ PositionalHex
    /\ hex_to_rgb(color[1]).ok
    /\ Accept(hex_to_rgb(color[1]).value)

\* lines 285-290
MainRgbNotNumbers ==
    /\ mpc = "start"
    /\ input_exists
    /\ color # <<>> /\ ~HexGiven
    /\ ~PositionalHex
    /\ \E k \in 1..Len(color) : ~rgb_values[k].ok
    /\ Fail

\* lines 292-296
MainRgbWrongCount ==
    /\ mpc = "start"
    /\ input_exists
    /\ color # <<>> /\ ~HexGiven
    /\ ~PositionalHex
    /\ \A k \in 1..Len(color) : rgb_values[k].ok
    /\ Len(color) # 3
    /\ Fail

\* lines 298-303
MainRgbOutOfRange ==
    /\ mpc = "start"
    /\ input_exists
    /\ color # <<>> /\ ~HexGiven
    /\ ~PositionalHex
    /\ \A k \in 1..Len(color) : rgb_values[k].ok
    /\ Len(color) = 3
    /\ \E k \in 1..3 : ~(0 <= rgb_values[k].value /\ rgb_values[k].value <= 255)
    /\ Fail

\* lines 285-303: three numbers, all in 0..255
MainRgbOk ==
    /\ mpc = "start"
    /\ input_exists
    /\ color # <<>> /\ ~HexGiven
    /\ ~PositionalHex
    /\ \A k \in 1..Len(color) : rgb_values[k].ok
    /\ Len(color) = 3
    /\ \A k \in 1..3 : 0 <= rgb_values[k].value /\ rgb_values[k].value <= 255
    /\ Accept([k \in 1..3 |-> rgb_values[k].value])

\* lines 304-309: a --hex value that hex_to_rgb refuses
MainHexOptionBad ==
    /\ mpc = "start"
    /\ input_exists
    /\ color = <<>> /\ HexGiven
    /\ ~hex_to_rgb(hex[2]).ok
    /\ Fail

\* lines 304-306: a --hex value that hex_to_rgb converts
MainHexOptionOk ==
    /\ mpc = "start"
    /\ input_exists
    /\ color = <<>> /\ HexGiven
    /\ hex_to_rgb(hex[2]).ok
    /\ Accept(hex_to_rgb(hex[2]).value)

\* lines 311-323: recolor_icon is called and main returns 0 or 1 by its
\* result (True, or False when the image library raised).
MainRecolor ==
    /\ mpc = "call"
    /\ recolor_calls' = recolor_calls + 1
    /\ \E success \in BOOLEAN : exit_code' = IF success THEN 0 ELSE 1
    /\ mpc' = "exit"
    /\ UNCHANGED rgb
    /\ MainFrame

NextMain ==
    \/ MainInputMissing
    \/ MainBothColors
    \/ MainNoColor
    \/ MainPositionalHexBad
    \/ MainPositionalHexOk
    \/ MainRgbNotNumbers
    \/ MainRgbWrongCount
    \/ MainRgbOutOfRange
    \/ MainRgbOk
    \/ MainHexOptionBad
    \/ MainHexOptionOk
    \/ MainRecolor

\* The COLOR arguments tried: "0", "256", "x", "#fffff" and "#f".
ArgPool ==
    {<<"0">>, <<"2", "5", "6">>, <<"x">>, <<"#", "f", "f", "f", "f", "f">>, <<"#", "f">>}

\* The characters of the --hex values tried.
HexAlphabet == {"#", "f", "g"}

RECURSIVE SeqsUpTo(_, _)
\* The sequences over S of length at most n.
SeqsUpTo(S, n) ==
    IF n = 0 THEN {<<>>}
    ELSE LET shorter == SeqsUpTo(S, n - 1)
         IN  shorter \cup {Append(q, e) : q \in shorter, e \in S}

\* After parser.parse_args() (line 256).
InitMain ==
    /\ input_exists \in BOOLEAN
    /\ color \in SeqsUpTo(ArgPool, MaxArgs)
    /\ hex \in {<<FALSE, <<>>>>} \cup {<<TRUE, t>> : t \in SeqsUpTo(HexAlphabet, MaxHexLen)}
    /\ rgb = <<>>
    /\ recolor_calls = 0
    /\ exit_code = -1
    /\ mpc = "start"
    /\ StripIdle
    /\ PixelIdle
    /\ IcoIdle

SpecMain == InitMain /\ [][NextMain]_vars

\* Exactly six hexadecimal digits after an optional leading "#".
WellFormedHex(t) ==
    LET d == IF t # <<>> /\ t[1] = "#" THEN Tail(t) ELSE t
    IN  Len(d) = 6 /\ \A k \in 1..6 : IsDigit(d[k], 16)

\* A decimal number: digits after an optional sign.
IsNumber(t) ==
    LET d == IF t # <<>> /\ t[1] \in {"+", "-"} THEN Tail(t) ELSE t
    IN  d # <<>> /\ \A k \in 1..Len(d) : IsDigit(d[k], 10)

\* The invocation is one the specification has rejected.
InvalidInvocation ==
    \/ ~input_exists
    \/ color # <<>> /\ HexGiven
    \/ color = <<>> /\ ~HexGiven
    \/ color = <<>> /\ HexGiven /\ ~WellFormedHex(hex[2])
    \/ color # <<>> /\ PositionalHex /\ ~WellFormedHex(color[1])
    \/ color # <<>> /\ ~PositionalHex /\
          (\/ \E k \in 1..Len(color) : ~IsNumber(color[k])
           \/ Len(color) # 3
           \/ \E k \in 1..Len(color) : ~IsByte(ParseInt(color[k], 10).value))

\* C6: an invalid invocation never reaches recolor_icon and main returns 1.
C6_InvalidNeverProcessed ==
    InvalidInvocation =>
        /\ recolor_calls = 0
        /\ mpc # "call"
        /\ mpc = "exit" => exit_code = 1

====
